---- MODULE Spec2Model ----
(***************************************************************************)
(* Model of the housing-portfolio analysis pipeline:                       *)
(*   scripts/run_analysis.py           load_into_duckdb, run_queries,      *)
(*                                     write_summary, main                 *)
(*   scripts/create_excel_workbooks.py load_data, create_q2/q3/q4_workbook *)
(*   scripts/create_q1_pivot_csv.py    create_pivot_csv                    *)
(*                                                                         *)
(* Numbers.  A DOUBLE is a record [k, v]: k = "fin" with v the value in    *)
(* hundredths (fixed point, 2 decimals), or k = "null" / "inf" / "nan"     *)
(* with v = 0.  Percentages are likewise held in hundredths of a percent.  *)
(* An unrounded AVG is kept exactly, as the pair (sum, count).             *)
(***************************************************************************)
EXTENDS Integers, Sequences, FiniteSets, TLC

\* ---------------------------------------------------------------- bounds
MaxLen == 12        \* longest yearly series of the series inputs (points)
MaxRuns == 2        \* number of times the pipeline is run on the same file

\* ------------------------------------------------------ program constants
StartYear == 2000
EndYear == 2025
TopN == 5
MinDeltas == 10
VolLimit == 10

excel_order == <<"CA", "CO", "CT", "DC", "HI", "MA", "MD", "NJ", "UT", "WA">>

\* ---------------------------------------------------------------- values
Fin(x) == [k |-> "fin", v |-> x]
NULL == [k |-> "null", v |-> 0]
Inf == [k |-> "inf", v |-> 0]
NaN == [k |-> "nan", v |-> 0]

Range(s) == {s[i] : i \in DOMAIN s}

Min2(a, b) == IF a < b THEN a ELSE b

Abs(x) == IF x < 0 THEN -x ELSE x

\* all names in the order pandas' groupby sorts them (lexicographic)
StateNames == <<"CA", "CO", "CT", "DC", "HI", "MA", "MD", "NJ", "NY", "TX", "UT", "WA">>
CityNames == <<"a", "b">>

StateIdx(s) == CHOOSE i \in DOMAIN StateNames : StateNames[i] = s
CityIdx(c) == CHOOSE i \in DOMAIN CityNames : CityNames[i] = c

\* SQL ROUND(x, 2) of the quotient n/d (d > 0): half away from zero
SqlRound(n, d) == IF n >= 0 THEN (2 * n + d) \div (2 * d) ELSE -((2 * (-n) + d) \div (2 * d))

\* numpy round(2) of the quotient n/d (d > 0): half to even
NpRoundPos(n, d) ==
  LET q == n \div d
      r == n % d
  IN IF 2 * r < d THEN q
     ELSE IF 2 * r > d THEN q + 1
     ELSE IF q % 2 = 0 THEN q ELSE q + 1
NpRound(n, d) == IF n >= 0 THEN NpRoundPos(n, d) ELSE -NpRoundPos(-n, d)

\* ---------------------------------------------------------------- inputs
\* the county of a row: the two cities of TX lie in one county, the city of NY
\* is listed under another county from 2025 on
CountyOf(s, c, y) ==
  IF s = "TX" THEN "k1"
  ELSE IF s = "NY" THEN (IF y < EndYear THEN "k1" ELSE "k2")
  ELSE IF c = "a" THEN "k1" ELSE "k2"

Row(s, c, y, x) ==
  [statename |-> s, city |-> c, countyname |-> CountyOf(s, c, y), year |-> y, yearlyindex |-> x]

\* the rows of one (state, year) cell: the k-th value belongs to city k
RECURSIVE CellRows(_, _, _)
CellRows(s, y, vals) ==
  IF vals = <<>> THEN <<>>
  ELSE CellRows(s, y, SubSeq(vals, 1, Len(vals) - 1))
         \o <<Row(s, CityNames[Len(vals)], y, vals[Len(vals)])>>

\* the values a (state, year) cell may hold, in hundredths
StartCells == {<<>>, <<NULL>>, <<Fin(0)>>, <<Fin(10000)>>, <<Fin(1), Fin(2)>>}
EndCells == {<<>>, <<Fin(0)>>, <<Fin(30000)>>, <<Fin(3)>>}
StartCellsNY == {<<>>, <<Fin(0)>>, <<Fin(10000)>>}
EndCellsNY == {<<>>, <<Fin(30000)>>}

\* rows of the ten states of excel_order for the years ys; state i is worth
\* 100.00 in the first year and 100.00 + 10.00 * i afterwards
RECURSIVE BackdropRows(_, _, _)
BackdropRows(n, ys, skip) ==
  IF n = 0 THEN <<>>
  ELSE BackdropRows(n - 1, ys, skip)
         \o (IF excel_order[n] \in skip THEN <<>>
             ELSE [j \in 1..Len(ys) |->
                     Row(excel_order[n], "a", ys[j],
                         Fin(IF j = 1 THEN 10000 ELSE 10000 + 1000 * n))])

BackdropKinds == {"y2010", "growth"}
BrokenBackdropKinds == {"none", "noWA", "holeWA"}
Backdrop(kind) ==
  CASE kind = "none" -> <<>>
    [] kind = "y2010" -> BackdropRows(10, <<2010>>, {})
    [] kind = "growth" -> BackdropRows(10, <<StartYear, EndYear>>, {})
    [] kind = "noWA" -> BackdropRows(10, <<2010>>, {"WA"})
    [] kind = "holeWA" -> BackdropRows(10, <<2010>>, {}) \o <<Row("CA", "a", 2011, Fin(10000))>>

\* tables for the growth computations: a backdrop and up to two more states
GrowthTables ==
  {Backdrop(b) \o CellRows("TX", StartYear, c1) \o CellRows("TX", EndYear, c2)
               \o CellRows("NY", StartYear, c3) \o CellRows("NY", EndYear, c4) :
     b \in BackdropKinds, c1 \in StartCells, c2 \in EndCells,
     c3 \in StartCellsNY, c4 \in EndCellsNY}

\* tables on which the Q1 pivot has a missing column or an empty cell (and the
\* empty file)
BrokenTables ==
  {Backdrop(b) \o CellRows("TX", StartYear, c1) \o CellRows("TX", EndYear, c2) :
     b \in BrokenBackdropKinds, c1 \in StartCells, c2 \in EndCells}

\* yearly values of the series inputs (hundredths); the first eleven are the
\* series 100, 110, 105, 120, 90, 95, 130, 140, 135, 150, 160
SeriesBase == <<10000, 11000, 10500, 12000, 9000, 9500, 13000, 14000, 13500, 15000, 16000>>
SeriesValue(i) == IF i <= Len(SeriesBase) THEN SeriesBase[i] ELSE 16000 + 500 * (i - Len(SeriesBase))

\* a series of n points for TX starting in 2000; after point gap (if > 0) one
\* year is missing; point zero (if > 0) is worth 0
SeriesRows(n, gap, zero) ==
  [i \in 1..n |->
     Row("TX", "a", StartYear + i - 1 + (IF gap > 0 /\ i > gap THEN 1 ELSE 0),
         Fin(IF i = zero THEN 0 ELSE SeriesValue(i)))]

\* a series of n points for TX whose yearly averages are not whole hundredths:
\* 0.01 and 0.02 (two cities) in the odd points, 0.02 in the even ones
RECURSIVE FracSeriesRows(_)
FracSeriesRows(n) ==
  IF n = 0 THEN <<>>
  ELSE FracSeriesRows(n - 1)
         \o CellRows("TX", StartYear + n - 1,
                     IF n % 2 = 1 THEN <<Fin(1), Fin(2)>> ELSE <<Fin(2)>>)

\* the series of 1 to MaxLen points: whole, or with a year missing after the
\* first, the second or the last but one point, or with a zero as the first,
\* the second or the last point
SeriesTables ==
  {Backdrop("y2010") \o SeriesRows(n, g, z) :
     n \in 1..MaxLen, g \in {0, 1, 2, MaxLen - 1}, z \in {0, 1, 2, MaxLen}}
  \cup {Backdrop("y2010") \o FracSeriesRows(n) \o CellRows("TX", EndYear, c) :
          n \in 1..MaxLen, c \in {<<>>, <<Fin(2)>>, <<Fin(2), Fin(3)>>}}

\* yearly series for the first n states of StateNames, from 2000 on: state j
\* is worth 100.00 in the odd points and 100.00 + j in the even ones; the
\* state twin swings like its successor; the series have MaxLen - 1 points, the
\* one of the state short a point less
RECURSIVE VolRows(_, _, _)
VolRows(n, short, twin) ==
  IF n = 0 THEN <<>>
  ELSE VolRows(n - 1, short, twin)
         \o [i \in 1..(IF StateNames[n] = short THEN MaxLen - 2 ELSE MaxLen - 1) |->
               Row(StateNames[n], "a", StartYear + i - 1,
                   Fin(IF i % 2 = 1 THEN 10000
                       ELSE 10000 + 100 * (IF StateNames[n] = twin THEN n + 1 ELSE n)))]

\* tables where more than ten states have a series
VolTables ==
  {VolRows(Len(StateNames), p[1], p[2]) :
     p \in {<<"WA", "CA">>, <<"TX", "HI">>, <<"none", "none">>}}

InputTables == GrowthTables \cup BrokenTables \cup SeriesTables \cup VolTables

\* what data/sample_home_values_yearly_clean.csv may hold: some states in
\* 2010, or in 2000 and 2025, and TX worth 100 in 2000 and 300 in 2025
SampleTables ==
  {Backdrop(b) \o CellRows("TX", StartYear, <<Fin(10000)>>)
               \o CellRows("TX", EndYear, <<Fin(30000)>>) :
     b \in BackdropKinds \cup BrokenBackdropKinds}

\* ------------------------------------------------------------ aggregation
\* WHERE yearlyindex IS NOT NULL
NotNullRows(t) == SelectSeq(t, LAMBDA r : r.yearlyindex.k # "null")

\* sum of yearlyindex over the rows of t at the positions I
RECURSIVE SumAt(_, _)
SumAt(t, I) ==
  IF I = {} THEN 0
  ELSE LET i == CHOOSE j \in I : TRUE
       IN t[i].yearlyindex.v + SumAt(t, I \ {i})

SumIndex(t, s, y) == SumAt(t, {i \in DOMAIN t : t[i].statename = s /\ t[i].year = y})
CountIndex(t, s, y) == Cardinality({i \in DOMAIN t : t[i].statename = s /\ t[i].year = y})

\* GROUP BY statename, year over the non-null rows: AVG(yearlyindex) kept
\* exactly as sum and count
StateYearAvg(t) ==
  LET nn == NotNullRows(t)
  IN {[statename |-> g[1], year |-> g[2],
       sum |-> SumIndex(nn, g[1], g[2]), count |-> CountIndex(nn, g[1], g[2])] :
        g \in {<<r.statename, r.year>> : r \in Range(nn)}}

\* q1 and the state_values CTE of q2: ROUND(AVG(yearlyindex), 2)
StateValues(avgs) ==
  {[statename |-> a.statename, year |-> a.year, avg_yearly_index |-> SqlRound(a.sum, a.count)] :
     a \in avgs}

\* the Q1 pivot of run_queries: pivot_df[excel_order] raises KeyError when a
\* state of excel_order has no row, astype(int) raises on a NaN cell
Q1PivotRaises(df1) ==
  LET top10 == {r \in df1 : r.statename \in Range(excel_order)}
      years == {r.year : r \in top10}
  IN /\ df1 # {}
     /\ \/ \E s \in Range(excel_order) : ~(\E r \in top10 : r.statename = s)
        \/ \E s \in Range(excel_order) : \E y \in years :
             ~(\E r \in top10 : r.statename = s /\ r.year = y)

\* ------------------------------------------------------------ ordering
\* ORDER BY ... DESC of DuckDB: NaN above inf above every number, NULLS LAST
KeyClass(x) ==
  CASE x.k = "nan" -> 3
    [] x.k = "inf" -> 2
    [] x.k = "fin" -> 1
    [] x.k = "null" -> 0

KeyGreater(x, y) ==
  \/ KeyClass(x) > KeyClass(y)
  \/ KeyClass(x) = 1 /\ KeyClass(y) = 1 /\ x.v > y.v

\* a before b in a descending sort; a and b are [key, pos, row], the sort
\* key, the position and the row; rows with equal keys are ordered by their
\* position, ascending or (tie = "desc") descending
Before(a, b, tie) ==
  \/ KeyGreater(a.key, b.key)
  \/ /\ a.key = b.key
     /\ IF tie = "asc" THEN a.pos < b.pos ELSE a.pos > b.pos

RECURSIVE SortDesc(_, _)
SortDesc(S, tie) ==
  IF S = {} THEN <<>>
  ELSE LET first == CHOOSE a \in S : \A b \in S \ {a} : Before(a, b, tie)
       IN <<first.row>> \o SortDesc(S \ {first}, tie)

Limit(s, n) == SubSeq(s, 1, Min2(n, Len(s)))

\* ------------------------------------------------------------ Q2 (SQL)
\* x / y * 100 in hundredths of a percent, from the numerator n and the
\* denominator d of the ratio; a zero denominator gives NULL, or inf / nan
\* when DuckDB runs with ieee_floating_point_ops
PctOf(n, d, ieeeOps) ==
  IF d = 0 THEN (IF ieeeOps THEN (IF n = 0 THEN NaN ELSE Inf) ELSE NULL)
  ELSE Fin(SqlRound(n * 10000, d))

\* MIN / MAX(CASE WHEN year = y THEN avg_yearly_index END): NULL without a row
ValueAt(sv, s, y) ==
  IF \E r \in sv : r.statename = s /\ r.year = y
  THEN Fin((CHOOSE r \in sv : r.statename = s /\ r.year = y).avg_yearly_index)
  ELSE NULL

\* the growth_calc CTE and the WHERE ... IS NOT NULL of q2
GrowthCalcBug(sv) ==
  {g \in {[statename |-> s, value_2000 |-> ValueAt(sv, s, StartYear),
           value_2025 |-> ValueAt(sv, s, EndYear)] : s \in {r.statename : r \in sv}} :
     g.value_2025.k # "null"}
GrowthCalc(sv) ==
  {g \in {[statename |-> s, value_2000 |-> ValueAt(sv, s, StartYear),
           value_2025 |-> ValueAt(sv, s, EndYear)] : s \in {r.statename : r \in sv}} :
     g.value_2000.k # "null" /\ g.value_2025.k # "null"}

\* one output row of q2, with the absolute_growth column run_queries adds
Q2RowBug(g, ieeeOps) ==
  [statename |-> g.statename, value_2000 |-> g.value_2000.v, value_2025 |-> g.value_2025.v,
   pct_growth |-> PctOf(g.value_2025.v, g.value_2000.v, ieeeOps),
   absolute_growth |-> g.value_2025.v - g.value_2000.v]
Q2Row(g, ieeeOps) ==
  [statename |-> g.statename, value_2000 |-> g.value_2000.v, value_2025 |-> g.value_2025.v,
   pct_growth |-> PctOf(g.value_2025.v - g.value_2000.v, g.value_2000.v, ieeeOps),
   absolute_growth |-> g.value_2025.v - g.value_2000.v]

\* q2: ORDER BY pct_growth DESC LIMIT 5; the order of equal pct_growth is not
\* fixed by the query (tie)
Q2(sv, ieeeOps, tie) ==
  LET rows == {Q2Row(g, ieeeOps) : g \in GrowthCalc(sv)}
  IN Limit(SortDesc({[key |-> r.pct_growth, pos |-> StateIdx(r.statename), row |-> r] :
                       r \in rows}, tie), TopN)

\* ------------------------------------------------------------ Q3A, Q3B
Q3Row(c, s, v0, v1, ag, pg) ==
  [city |-> c, statename |-> s, value_2000 |-> v0, value_2025 |-> v1,
   absolute_growth |-> ag, pct_growth |-> pg]

\* excel_q3a_data: values in whole units, pct_growth in hundredths of a percent
Q3A ==
  <<Q3Row("Atherton", "CA", 2242459, 7669379, 5426920, 24201),
    Q3Row("Water Mill", "NY", 837106, 4787128, 3950022, 47187),
    Q3Row("Bridgehampton", "NY", 731911, 4318796, 3586885, 49007),
    Q3Row("Montecito", "CA", 1272436, 4770993, 3498557, 27495),
    Q3Row("Los Altos", "CA", 1221979, 4669028, 3447049, 28220)>>

\* excel_q3b_data
Q3B ==
  <<Q3Row("Greenwich", "CT", 75929, 1410845, 1410845 - 75929, 175811),
    Q3Row("Alamo", "CA", 65359, 749735, 749735 - 65359, 104710),
    Q3Row("Wilson", "NC", 72828, 828493, 828493 - 72828, 103760),
    Q3Row("Park City", "UT", 76241, 744888, 744888 - 76241, 87702),
    Q3Row("Houlton", "ME", 38427, 350832, 350832 - 38427, 81298)>>

\* ------------------------------------------------------------ Q4 (SQL)
RECURSIVE SortAsc(_)
SortAsc(S) ==
  IF S = {} THEN <<>>
  ELSE LET m == CHOOSE x \in S : \A y \in S : x <= y
       IN <<m>> \o SortAsc(S \ {m})

\* the rows of one state in state_yearly_volatility, ORDER BY year
YearlyOf(avgs, s) ==
  LET ys == SortAsc({a.year : a \in {b \in avgs : b.statename = s}})
  IN [i \in 1..Len(ys) |-> CHOOSE a \in avgs : a.statename = s /\ a.year = ys[i]]

\* (cur - prev) / prev * 100 on the unrounded averages cur and prev, held to a
\* hundredth of a percent
YoyChangeOfRounded(cur, prev, ieeeOps) ==
  PctOf(SqlRound(cur.sum, cur.count) - SqlRound(prev.sum, prev.count),
        SqlRound(prev.sum, prev.count), ieeeOps)
YoyChange(cur, prev, ieeeOps) ==
  PctOf(cur.sum * prev.count - prev.sum * cur.count, prev.sum * cur.count, ieeeOps)

\* state_year_over_year_changes of one state: LAG(avg_yearly_index) OVER
\* (PARTITION BY statename ORDER BY year) is the previous row of the state,
\* NULL on its first row
YoyChanges(rows, ieeeOps) ==
  [i \in 1..Len(rows) |->
     IF i = 1 THEN NULL ELSE YoyChange(rows[i], rows[i - 1], ieeeOps)]

\* WHERE yoy_change_pct IS NOT NULL
ValidChanges(rows, ieeeOps) ==
  SelectSeq(YoyChanges(rows, ieeeOps), LAMBDA d : d.k # "null")

RECURSIVE SumSeq(_)
SumSeq(ds) == IF ds = <<>> THEN 0 ELSE Head(ds).v + SumSeq(Tail(ds))

RECURSIVE SumSquares(_)
SumSquares(ds) == IF ds = <<>> THEN 0 ELSE Head(ds).v * Head(ds).v + SumSquares(Tail(ds))

MinSeq(ds) == CHOOSE x \in {d.v : d \in Range(ds)} : \A d \in Range(ds) : x <= d.v
MaxSeq(ds) == CHOOSE x \in {d.v : d \in Range(ds)} : \A d \in Range(ds) : x >= d.v

\* largest r in lo..hi with r * r <= x, given lo * lo <= x
RECURSIVE RootBetween(_, _, _)
RootBetween(lo, hi, x) ==
  IF lo = hi THEN lo
  ELSE LET mid == (lo + hi + 1) \div 2
       IN IF mid * mid <= x THEN RootBetween(mid, hi, x) ELSE RootBetween(lo, mid - 1, x)

\* sqrt(v / d) rounded to the nearest integer (v >= 0, d > 0)
RoundRoot(v, d) ==
  LET f == 4 * (v \div d) + (4 * (v % d)) \div d
  IN (RootBetween(0, 46340, f) + 1) \div 2

\* ROUND(STDDEV(yoy_change_pct), 2): STDDEV is stddev_samp, the n - 1 form
StddevPop(ds) ==
  LET n == Len(ds)
  IN RoundRoot(n * SumSquares(ds) - SumSeq(ds) * SumSeq(ds), n * n)
StddevSamp(ds) ==
  LET n == Len(ds)
  IN RoundRoot(n * SumSquares(ds) - SumSeq(ds) * SumSeq(ds), n * (n - 1))

AllFinite(ds) == \A i \in DOMAIN ds : ds[i].k = "fin"

\* state_volatility_metrics and the rounding of the final SELECT, for one
\* state with changes ds; without ieee_floating_point_ops every change is
\* finite. With it, the statistics of a group holding inf or nan are not
\* numbers (onNonFinite = "nan") unless the aggregate raises
VolatilityRow(s, ds) ==
  IF AllFinite(ds)
  THEN [statename |-> s, years_tracked |-> Len(ds),
        avg_yoy_change_pct |-> Fin(SqlRound(SumSeq(ds), Len(ds))),
        volatility_stddev |-> Fin(StddevSamp(ds)),
        volatility_range_pct |-> Fin(MaxSeq(ds) - MinSeq(ds)),
        worst_year_pct |-> Fin(MinSeq(ds)),
        best_year_pct |-> Fin(MaxSeq(ds))]
  ELSE [statename |-> s, years_tracked |-> Len(ds),
        avg_yoy_change_pct |-> NaN, volatility_stddev |-> NaN,
        volatility_range_pct |-> NaN, worst_year_pct |-> NaN, best_year_pct |-> NaN]

\* STDDEV over a group of two or more changes, one of them inf or nan, is out
\* of range
Q4Raises(changes, onNonFinite) ==
  /\ onNonFinite = "raise"
  /\ \E s \in DOMAIN changes : Len(changes[s]) >= 2 /\ ~AllFinite(changes[s])

\* the valid yoy_change_pct of every state of the table
StateChanges(avgs, ieeeOps) ==
  [s \in {a.statename : a \in avgs} |-> ValidChanges(YearlyOf(avgs, s), ieeeOps)]

\* q4: HAVING COUNT(*) >= 10, ORDER BY volatility_stddev DESC LIMIT 10
Q4ByWorstYear(changes, tie) ==
  LET kept == {s \in DOMAIN changes : Len(changes[s]) >= MinDeltas}
      rows == {VolatilityRow(s, changes[s]) : s \in kept}
  IN Limit(SortDesc({[key |-> r.worst_year_pct, pos |-> StateIdx(r.statename), row |-> r] :
                       r \in rows}, tie), VolLimit)
Q4(changes, tie) ==
  LET kept == {s \in DOMAIN changes : Len(changes[s]) >= MinDeltas}
      rows == {VolatilityRow(s, changes[s]) : s \in kept}
  IN Limit(SortDesc({[key |-> r.volatility_stddev, pos |-> StateIdx(r.statename), row |-> r] :
                       r \in rows}, tie), VolLimit)

\* ------------------------------------------------------ files of reports/
\* a csv file: its header and its rows; pd.DataFrame() has neither
Frame(cols, rows) == [columns |-> cols, rows |-> rows]
EmptyFrame == Frame(<<>>, <<>>)

\* df.to_csv(REPORTS / name) and pd.read_csv(REPORTS / name), which raises
\* FileNotFoundError (absent) when there is no such file
WriteFile(files, name, content) == (name :> content) @@ files
IsFile(files, name) == name \in DOMAIN files

\* f"{x:,}" of a whole number x >= 0: its groups of three digits
RECURSIVE CommaFormat(_)
CommaFormat(n) == IF n < 1000 THEN <<n>> ELSE CommaFormat(n \div 1000) \o <<n % 1000>>

\* f"{x:,.0f}" of x given in hundredths: the sign and the groups of the
\* nearest whole number; f"${x:,.0f}" of a whole number; f"{x:.2f}%"
Money(x) == [neg |-> x < 0, groups |-> CommaFormat(NpRound(Abs(x), 100))]
Dollars(n) == [dollar |-> CommaFormat(n)]
Percent(x) == [percent |-> x]

\* the Q1 file of run_queries when df1 is not empty: years as rows, the
\* states of excel_order as columns, cells round(0).astype(int) with commas
Q1Pivot(df1) ==
  LET top10 == {r \in df1 : r.statename \in Range(excel_order)}
      ys == SortAsc({r.year : r \in top10})
  IN Frame(<<"year">> \o excel_order,
           [i \in 1..Len(ys) |->
              [year |-> ys[i],
               cells |-> [k \in 1..Len(excel_order) |->
                            CommaFormat(NpRound(ValueAt(top10, excel_order[k], ys[i]).v, 100))]]])

Q1File(df1) ==
  IF df1 # {} THEN Q1Pivot(df1)
  ELSE Frame(<<"statename", "year", "avg_yearly_index">>, <<>>)

\* the Q2 file: State, Absolute Growth and % Growth as text
Q2Formatted(df) ==
  Frame(<<"State", "Absolute Growth", "% Growth">>,
        [i \in 1..Len(df) |->
           [State |-> df[i].statename, Absolute_Growth |-> Money(df[i].absolute_growth),
            Pct_Growth |-> Percent(df[i].pct_growth)]])

Q2Empty == Frame(<<"statename", "value_2000", "value_2025", "pct_growth">>, <<>>)

\* the Q3A and Q3B files: formatted columns, then the raw ones
Q3Formatted(df) ==
  Frame(<<"City_State", "City", "State", "Value_2000_Formatted", "Value_2025_Formatted",
          "Absolute_Growth_Formatted", "Pct_Growth_Formatted", "Value_2000_Raw",
          "Value_2025_Raw", "Absolute_Growth_Raw", "Pct_Growth_Raw">>,
        [i \in 1..Len(df) |->
           [City_State |-> <<df[i].city, df[i].statename>>,
            Value_2000_Formatted |-> Dollars(df[i].value_2000),
            Value_2025_Formatted |-> Dollars(df[i].value_2025),
            Absolute_Growth_Formatted |-> Dollars(df[i].absolute_growth),
            Pct_Growth_Formatted |-> Percent(df[i].pct_growth), raw |-> df[i]]])

\* the Q4 file: formatted columns and raw ones, or the bare q4 header
Q4File(df) ==
  IF df # <<>>
  THEN Frame(<<"State", "Years_Tracked", "Avg_YoY_Change_Formatted",
               "Volatility_StdDev_Formatted", "Volatility_Range_Formatted",
               "Worst_Year_Formatted", "Best_Year_Formatted", "Avg_YoY_Change_Raw",
               "Volatility_StdDev_Raw", "Volatility_Range_Raw", "Worst_Year_Raw",
               "Best_Year_Raw">>,
             [i \in 1..Len(df) |->
                [Volatility_StdDev_Formatted |-> Percent(df[i].volatility_stddev),
                 Avg_YoY_Change_Formatted |-> Percent(df[i].avg_yoy_change_pct),
                 Volatility_Range_Formatted |-> Percent(df[i].volatility_range_pct),
                 Worst_Year_Formatted |-> Percent(df[i].worst_year_pct),
                 Best_Year_Formatted |-> Percent(df[i].best_year_pct), raw |-> df[i]]])
  ELSE Frame(<<"statename", "years_tracked", "avg_yoy_change_pct", "volatility_stddev",
               "volatility_range_pct", "worst_year_pct", "best_year_pct">>, <<>>)

\* ---------------------------------------------------------- write_summary
\* try: pd.read_csv(...) except FileNotFoundError: pd.DataFrame()
ReadOrEmpty(files, name) == IF IsFile(files, name) THEN files[name] ELSE EmptyFrame

\* not df.empty and cols.issubset(df.columns)
Usable(f, cols) == f.rows # <<>> /\ f.columns # <<>> /\ cols \subseteq Range(f.columns)

\* the line "N/A"
NA == [na |-> TRUE]

\* df.sort_values("pct_growth", ascending=False).head(1).iloc[0]
TopRow(f, tie) ==
  SortDesc({[key |-> f.rows[i].pct_growth, pos |-> i, row |-> f.rows[i]] : i \in DOMAIN f.rows},
           tie)[1]

\* the four findings of summary.txt
SummaryLines(files, tie) ==
  LET yearly_avg == ReadOrEmpty(files, "q1_yearly_average_by_state.csv")
      growth == ReadOrEmpty(files, "q2_top5_states_highest_growth_2000_2025.csv")
      city_growth == ReadOrEmpty(files, "q3_top5_cities_highest_growth_2000_2025.csv")
      state_counts == ReadOrEmpty(files, "q4_cities_counties_by_state.csv")
  IN [coverage |->
        IF Usable(yearly_avg, {"statename", "year", "avg_yearly_index"})
        THEN [na |-> FALSE,
              total_states |-> Cardinality({r.statename : r \in Range(yearly_avg.rows)}),
              year_range |-> <<Head(SortAsc({r.year : r \in Range(yearly_avg.rows)})),
                               -Head(SortAsc({-r.year : r \in Range(yearly_avg.rows)}))>>]
        ELSE NA,
      state_growth |->
        IF Usable(growth, {"statename", "pct_growth"})
        THEN [na |-> FALSE, statename |-> TopRow(growth, tie).statename,
              pct_growth |-> TopRow(growth, tie).pct_growth]
        ELSE NA,
      city_growth |->
        IF Usable(city_growth, {"city", "statename", "pct_growth"})
        THEN [na |-> FALSE, city |-> TopRow(city_growth, tie).city,
              statename |-> TopRow(city_growth, tie).statename,
              pct_growth |-> TopRow(city_growth, tie).pct_growth]
        ELSE NA,
      most_cities |->
        IF Usable(state_counts, {"statename", "unique_cities"})
        THEN [na |-> FALSE, statename |-> state_counts.rows[1].statename,
              unique_cities |-> state_counts.rows[1].unique_cities]
        ELSE NA]

\* ---------------------------------------------------- create_q1_pivot_csv
\* the mean of avg_yearly_index of state s in the long-format rows, to 4
\* decimals
RECURSIVE SumRows(_, _)
SumRows(rows, s) ==
  IF rows = <<>> THEN 0
  ELSE (IF Head(rows).statename = s THEN Head(rows).avg_yearly_index ELSE 0)
         + SumRows(Tail(rows), s)
StateMean(rows, s) ==
  (SumRows(rows, s) * 100) \div Cardinality({i \in DOMAIN rows : rows[i].statename = s})

\* top_10_states: groupby('statename').mean().sort_values(ascending=False)
\* .head(10).index
top_10_states(rows, tie) ==
  Limit(SortDesc({[key |-> Fin(StateMean(rows, s)), pos |-> StateIdx(s), row |-> s] :
                    s \in {r.statename : r \in Range(rows)}}, tie), 10)

\* the pivot create_pivot_csv writes from long-format rows: years as rows, the
\* top 10 states as columns, NaN where a state has no value for a year
PivotCsv(rows, tie) ==
  LET cols == top_10_states(rows, tie)
      kept == SelectSeq(rows, LAMBDA r : r.statename \in Range(cols))
      ys == SortAsc({r.year : r \in Range(kept)})
  IN Frame(<<"year">> \o cols,
           [i \in 1..Len(ys) |->
              [year |-> ys[i],
               cells |-> [k \in 1..Len(cols) |->
                            IF \E r \in Range(kept) : r.statename = cols[k] /\ r.year = ys[i]
                            THEN Fin((CHOOSE r \in Range(kept) :
                                        r.statename = cols[k] /\ r.year = ys[i]).avg_yearly_index)
                            ELSE NaN]]])

\* ------------------------------------------------- create_excel_workbooks
SumCity(t, c, s, y) ==
  SumAt(t, {i \in DOMAIN t : t[i].city = c /\ t[i].statename = s /\ t[i].year = y})

CountCity(t, c, s, y) ==
  Cardinality({i \in DOMAIN t : t[i].city = c /\ t[i].statename = s /\ t[i].year = y})

\* load_data: SELECT * ... WHERE yearlyindex IS NOT NULL
load_data(t) == NotNullRows(t)

\* df.groupby(['statename', 'year'])['yearlyindex'].mean().round(2); ent is
\* the entity, <<statename>>
state_yearly(df) ==
  {[ent |-> <<g[1]>>, year |-> g[2],
    yearlyindex |-> NpRound(SumIndex(df, g[1], g[2]), CountIndex(df, g[1], g[2]))] :
     g \in {<<r.statename, r.year>> : r \in Range(df)}}

\* df.groupby(['city', 'statename', 'year'])['yearlyindex'].mean().round(2);
\* the entity is <<city, statename>>
city_yearly(df) ==
  {[ent |-> <<g[1], g[2]>>, year |-> g[3],
    yearlyindex |-> NpRound(SumCity(df, g[1], g[2], g[3]), CountCity(df, g[1], g[2], g[3]))] :
     g \in {<<r.city, r.statename, r.year>> : r \in Range(df)}}

\* x_2025.reindex(x_2000.index): NaN for an entity without a 2025 row
Reindexed(yearly, e, y) ==
  IF \E r \in yearly : r.ent = e /\ r.year = y
  THEN Fin((CHOOSE r \in yearly : r.ent = e /\ r.year = y).yearlyindex)
  ELSE NaN

\* ((Value_2025 - Value_2000) / Value_2000 * 100).round(2) in floating point
GrowthPercentage(v0, v1) ==
  IF v1.k = "nan" THEN NaN
  ELSE IF v0 = 0 THEN (IF v1.v = 0 THEN NaN ELSE Inf)
  ELSE Fin(NpRound((v1.v - v0) * 10000, v0))

\* the growth_data frame before dropna: one row per entity of the 2000 index
growth_frame(yearly) ==
  {[ent |-> r.ent, Value_2000 |-> r.yearlyindex,
    Value_2025 |-> Reindexed(yearly, r.ent, EndYear),
    Growth_Percentage |-> GrowthPercentage(r.yearlyindex, Reindexed(yearly, r.ent, EndYear))] :
     r \in {x \in yearly : x.year = StartYear}}

\* dropna(): rows holding a NaN go; inf is not NA
dropna(frame) == {r \in frame : r.Value_2025.k # "nan" /\ r.Growth_Percentage.k # "nan"}

\* position of an entity in the sorted group index
EntPos(r) ==
  IF Len(r.ent) = 1 THEN StateIdx(r.ent[1])
  ELSE CityIdx(r.ent[1]) * (Len(StateNames) + 1) + StateIdx(r.ent[2])

\* sort_values('Growth_Percentage', ascending=False) with the default kind
\* 'quicksort', which is not a stable sort: the order of rows of equal growth
\* (tie) is not fixed
growth_data(yearly, tie) ==
  SortDesc({[key |-> r.Growth_Percentage, pos |-> EntPos(r), row |-> r] :
              r \in dropna(growth_frame(yearly))}, tie)

\* groupby('statename').agg({col: 'nunique'}) for one state: the number of
\* distinct values of the column col in the rows of the state
nuniqueAsCount(df, s, col) == Cardinality({i \in DOMAIN df : df[i].statename = s})
nunique(df, s, col) ==
  Cardinality({df[i][col] : i \in {j \in DOMAIN df : df[j].statename = s}})

\* state_counts of create_q4_workbook, sorted by Unique_Cities descending
state_counts(df, tie) ==
  SortDesc({[key |-> Fin(nunique(df, s, "city")), pos |-> StateIdx(s),
             row |-> [State |-> s, Unique_Cities |-> nunique(df, s, "city"),
                      Unique_Counties |-> nunique(df, s, "countyname")]] :
              s \in {r.statename : r \in Range(df)}}, tie)

\* the sheets of create_q2_workbook, create_q3_workbook and create_q4_workbook
Workbooks(t, tie) ==
  LET df == load_data(t)
      g2 == growth_data(state_yearly(df), tie)
      g3 == growth_data(city_yearly(df), tie)
  IN [made |-> TRUE, Growth_Analysis |-> g2, Top_5_States |-> Limit(g2, TopN),
      City_Growth_Analysis |-> g3, Top_5_Cities |-> Limit(g3, TopN),
      State_Coverage |-> state_counts(df, tie)]

NoWorkbooks ==
  [made |-> FALSE, Growth_Analysis |-> <<>>, Top_5_States |-> <<>>,
   City_Growth_Analysis |-> <<>>, Top_5_Cities |-> <<>>, State_Coverage |-> <<>>]

\* ------------------------------------------------------------ the program
VARIABLES
  exists,   \* whether the file given with --data exists
  csv,      \* the rows of that file
  sample,   \* the rows of data/sample_home_values_yearly_clean.csv
  warned,   \* whether the [warn] line was printed
  ieee,     \* DuckDB's ieee_floating_point_ops of this installation
  nonfinite, \* what its STDDEV does with inf or nan: "raise" or "nan"
  table,    \* home_values_yearly_clean in data/housing.duckdb
  pc,       \* where main of run_analysis.py is
  run,      \* how many times main was started
  df2,      \* result of q2 with the absolute_growth column
  df3a,     \* Q3A table
  df3b,     \* Q3B table
  df4,      \* result of q4
  reports,  \* the csv files and summary.txt of reports/, by name
  pivot_pc, \* create_q1_pivot_csv.py: "none", "written" or "failed"
  xl,       \* sheets written by create_excel_workbooks.py
  prev      \* what the previous run of main left

vars == <<exists, csv, sample, warned, ieee, nonfinite, table, pc, run, df2, df3a, df3b, df4, reports, pivot_pc,
          xl, prev>>

TieOrders == {"asc", "desc"}
NonFiniteOutcomes == {"raise", "nan"}

NoOutputs == [pc |-> "none", df2 |-> <<>>, df3a |-> <<>>, df3b |-> <<>>, df4 |-> <<>>]

Init ==
  /\ exists \in BOOLEAN
  /\ csv \in (IF exists THEN InputTables ELSE {<<>>})
  /\ sample \in (IF exists THEN {Backdrop("growth")} ELSE SampleTables)
  /\ warned = FALSE
  /\ ieee \in BOOLEAN
  /\ nonfinite \in (IF ieee THEN NonFiniteOutcomes ELSE {"raise"})
  /\ table = <<>>
  /\ pc = "start"
  /\ run = 1
  /\ df2 = <<>>
  /\ df3a = <<>>
  /\ df3b = <<>>
  /\ df4 = <<>>
  /\ reports = <<>>
  /\ pivot_pc = "none"
  /\ xl = NoWorkbooks
  /\ prev = NoOutputs

\* DROP TABLE IF EXISTS; CREATE TABLE ... AS SELECT * FROM read_csv_auto(...)
LoadedTable(old, file) == file

\* the file load_into_duckdb reads: the sample when csv_path does not exist
CsvRead(there, file, fallback) == IF there THEN file ELSE fallback

load_into_duckdb ==
  /\ pc = "start"
  /\ warned' = (warned \/ ~exists)
  /\ table' = LoadedTable(table, CsvRead(exists, csv, sample))
  /\ pc' = "loaded"
  /\ UNCHANGED <<exists, csv, sample, ieee, nonfinite, run, df2, df3a, df3b, df4, reports,
                 pivot_pc, xl, prev>>

\* run_queries: Q1 and its pivot, Q2, Q3A, Q3B, Q4 in this order, each result
\* written to its file; an exception ends the run with the later files
\* unwritten
run_queries ==
  /\ pc = "loaded"
  /\ LET avgs == StateYearAvg(table)
         df1 == StateValues(avgs)
         changes == StateChanges(avgs, ieee)
     IN IF Q1PivotRaises(df1)
        THEN /\ pc' = "failed_q1"
             /\ UNCHANGED <<df2, df3a, df3b, df4, reports>>
        ELSE \E tie \in TieOrders :
               LET q2 == Q2(df1, ieee, tie)
                   f1 == WriteFile(reports, "Q1_Top10_States_Average_Values.csv", Q1File(df1))
                   f2 == IF q2 # <<>>
                         THEN WriteFile(f1, "Q2_Top5_Home_Values_Growth.csv", Q2Formatted(q2))
                         ELSE WriteFile(f1, "q2_top5_states_highest_growth_2000_2025.csv", Q2Empty)
                   f3 == WriteFile(WriteFile(f2, "Q3A_Top5_Cities_Absolute_Growth.csv",
                                             Q3Formatted(Q3A)),
                                   "Q3B_Top5_Cities_Percentage_Growth.csv", Q3Formatted(Q3B))
               IN /\ df2' = q2
                  /\ df3a' = Q3A
                  /\ df3b' = Q3B
                  /\ IF Q4Raises(changes, nonfinite)
                     THEN pc' = "failed_q4" /\ UNCHANGED df4 /\ reports' = f3
                     ELSE /\ pc' = "queried"
                          /\ df4' = Q4(changes, tie)
                          /\ reports' = WriteFile(f3, "Q4_Top10_States_Highest_Volatility.csv",
                                                  Q4File(Q4(changes, tie)))
  /\ UNCHANGED <<exists, csv, sample, warned, ieee, nonfinite, table, run, pivot_pc, xl, prev>>

\* write_summary: summary.txt from the files it finds in reports/
write_summary ==
  /\ pc = "queried"
  /\ \E tie \in TieOrders :
       reports' = WriteFile(reports, "summary.txt", SummaryLines(reports, tie))
  /\ pc' = "done"
  /\ UNCHANGED <<exists, csv, sample, warned, ieee, nonfinite, table, run, df2, df3a, df3b, df4,
                 pivot_pc, xl, prev>>

Ended == pc \in {"done", "failed_q1", "failed_q4"}

\* main of create_excel_workbooks.py, run once the database holds the table
create_excel_workbooks ==
  /\ Ended
  /\ ~xl.made
  /\ \E tie \in TieOrders : xl' = Workbooks(table, tie)
  /\ UNCHANGED <<exists, csv, sample, warned, ieee, nonfinite, table, pc, run, df2, df3a, df3b, df4,
                 reports, pivot_pc, prev>>

\* create_pivot_csv of create_q1_pivot_csv.py, run after run_analysis.py:
\* read_csv raises without the Q1 file, groupby('statename') raises KeyError
\* on a file without that column; whether the pivot of a frame without rows
\* succeeds depends on the pandas at hand
create_q1_pivot_csv ==
  /\ Ended
  /\ pivot_pc = "none"
  /\ IF ~IsFile(reports, "Q1_Top10_States_Average_Values.csv")
     THEN pivot_pc' = "failed" /\ UNCHANGED reports
     ELSE LET df == reports["Q1_Top10_States_Average_Values.csv"]
          IN IF ~({"statename", "year", "avg_yearly_index"} \subseteq Range(df.columns))
             THEN pivot_pc' = "failed" /\ UNCHANGED reports
             ELSE \/ /\ df.rows = <<>>
                     /\ pivot_pc' = "failed"
                     /\ UNCHANGED reports
                  \/ \E tie \in TieOrders :
                       /\ pivot_pc' = "written"
                       /\ reports' = WriteFile(reports,
                                               "Q1_Top10_States_Average_Values_Pivot.csv",
                                               PivotCsv(df.rows, tie))
  /\ UNCHANGED <<exists, csv, sample, warned, ieee, nonfinite, table, pc, run, df2, df3a, df3b, df4,
                 xl, prev>>

\* main of run_analysis.py is started again on the same file
run_again ==
  /\ Ended
  /\ ~xl.made
  /\ pivot_pc = "none"
  /\ run < MaxRuns
  /\ prev' = [pc |-> pc, df2 |-> df2, df3a |-> df3a, df3b |-> df3b, df4 |-> df4]
  /\ pc' = "start"
  /\ run' = run + 1
  /\ UNCHANGED <<exists, csv, sample, warned, ieee, nonfinite, table, df2, df3a, df3b, df4,
                 reports, pivot_pc, xl>>

Next ==
  \/ load_into_duckdb
  \/ run_queries
  \/ write_summary
  \/ create_excel_workbooks
  \/ create_q1_pivot_csv
  \/ run_again

Spec == Init /\ [][Next]_vars

\* ------------------------------------------------------------ properties
\* what the properties are stated in: the observations of the loaded table
HasObs(s, y) ==
  \E i \in DOMAIN table :
    table[i].statename = s /\ table[i].year = y /\ table[i].yearlyindex.k = "fin"

HasCityObs(c, s, y) ==
  \E i \in DOMAIN table :
    /\ table[i].city = c /\ table[i].statename = s /\ table[i].year = y
    /\ table[i].yearlyindex.k = "fin"

ObsSum(s, y) == SumIndex(NotNullRows(table), s, y)
ObsCount(s, y) == CountIndex(NotNullRows(table), s, y)

\* v is the quotient n / d to the nearest unit (d > 0)
IsNearest(v, n, d) == 2 * Abs(v * d - n) <= d

\* v is the mean of the observations of state s in year y to 2 decimals
IsPeriodAggregate(v, s, y) == HasObs(s, y) /\ IsNearest(v, ObsSum(s, y), ObsCount(s, y))

\* p is (v1 - v0) / v0 * 100 to 2 decimals
IsPctGrowth(p, v0, v1) == p.k = "fin" /\ IsNearest(p.v, (v1 - v0) * 10000, v0)

Q2Written == pc \in {"queried", "done", "failed_q4"}

\* C1: every growth record of q2 and of the Growth_Analysis sheet has
\* absolute_growth = value_end - value_start and pct_growth =
\* round((value_end - value_start) / value_start * 100, 2), value_start and
\* value_end being the state's period aggregates of 2000 and 2025 (a record
\* whose value_start is 0 has no quotient: see C2); 100 and 300 give 200 and
\* 200.00
C1_GrowthFormula ==
  /\ \A i \in DOMAIN df2 :
       LET r == df2[i]
       IN /\ r.absolute_growth = r.value_2025 - r.value_2000
          /\ IsPeriodAggregate(r.value_2000, r.statename, StartYear)
          /\ IsPeriodAggregate(r.value_2025, r.statename, EndYear)
          /\ r.value_2000 # 0 => IsPctGrowth(r.pct_growth, r.value_2000, r.value_2025)
          /\ (r.value_2000 = 10000 /\ r.value_2025 = 30000)
               => (r.absolute_growth = 20000 /\ r.pct_growth = Fin(20000))
  /\ \A i \in DOMAIN xl.Growth_Analysis :
       LET r == xl.Growth_Analysis[i]
       IN /\ IsPeriodAggregate(r.Value_2000, r.ent[1], StartYear)
          /\ r.Value_2025.k = "fin"
          /\ IsPeriodAggregate(r.Value_2025.v, r.ent[1], EndYear)
          /\ r.Value_2000 # 0 => IsPctGrowth(r.Growth_Percentage, r.Value_2000, r.Value_2025.v)
          /\ (r.Value_2000 = 10000 /\ r.Value_2025.v = 30000)
               => r.Growth_Percentage = Fin(20000)

\* a run whose q2 result and whose Growth_Analysis sheet hold the record of a
\* state worth 100 in 2000 and 300 in 2025, and a record with fractional
\* growth
C1_Witness ==
  /\ pc = "done"
  /\ xl.made
  /\ \E i \in DOMAIN df2 :
       /\ df2[i].statename = "TX"
       /\ df2[i].value_2000 = 10000 /\ df2[i].value_2025 = 30000
       /\ df2[i].absolute_growth = 20000 /\ df2[i].pct_growth = Fin(20000)
  /\ \E i \in DOMAIN xl.Growth_Analysis :
       /\ xl.Growth_Analysis[i].ent = <<"TX">>
       /\ xl.Growth_Analysis[i].Growth_Percentage = Fin(20000)
  /\ Len(df2) = TopN

\* C2: no growth record with value_start = 0 appears in the q2 result nor in
\* the growth sheets of the workbooks
C2_NoZeroStartRecord ==
  /\ \A i \in DOMAIN df2 : df2[i].value_2000 # 0
  /\ \A i \in DOMAIN xl.Growth_Analysis : xl.Growth_Analysis[i].Value_2000 # 0
  /\ \A i \in DOMAIN xl.Top_5_States : xl.Top_5_States[i].Value_2000 # 0
  /\ \A i \in DOMAIN xl.City_Growth_Analysis : xl.City_Growth_Analysis[i].Value_2000 # 0
  /\ \A i \in DOMAIN xl.Top_5_Cities : xl.Top_5_Cities[i].Value_2000 # 0

\* the part of C2 about q2 alone, and the part about the workbooks alone
C2_NoZeroStartInQ2 == \A i \in DOMAIN df2 : df2[i].value_2000 # 0
C2_NoZeroStartInSheets ==
  /\ \A i \in DOMAIN xl.Growth_Analysis : xl.Growth_Analysis[i].Value_2000 # 0
  /\ \A i \in DOMAIN xl.City_Growth_Analysis : xl.City_Growth_Analysis[i].Value_2000 # 0

Years == {table[i].year : i \in DOMAIN table}
ObsYears(s) == {y \in Years : HasObs(s, y)}

\* the pairs of period aggregates of state s exactly one year apart
AdjacentPairs(s) == {y \in ObsYears(s) : y + 1 \in ObsYears(s)}

\* the valid year-over-year deltas of state s: the second year follows the
\* first, whose aggregate (the denominator) is not 0
ValidDeltaYears(s) == {y \in AdjacentPairs(s) : ObsSum(s, y) # 0}

\* the rows of the q4 result whose statistics are numbers
NumberRows == {i \in DOMAIN df4 : df4[i].volatility_stddev.k = "fin"}

\* C3: a year-over-year delta is produced only for two aggregates one year
\* apart: a pair spanning a gap does not count toward years_tracked
C3_OnlyAdjacentYears ==
  \A i \in NumberRows : df4[i].years_tracked <= Cardinality(AdjacentPairs(df4[i].statename))

\* C4: a state (a city) without an observation in 2000 or in 2025 is in no
\* growth output, of q2 or of the workbooks
C4_MissingEndpointExcluded ==
  /\ \A i \in DOMAIN df2 :
       HasObs(df2[i].statename, StartYear) /\ HasObs(df2[i].statename, EndYear)
  /\ \A i \in DOMAIN xl.Growth_Analysis :
       LET e == xl.Growth_Analysis[i].ent
       IN HasObs(e[1], StartYear) /\ HasObs(e[1], EndYear)
  /\ \A i \in DOMAIN xl.Top_5_States :
       LET e == xl.Top_5_States[i].ent
       IN HasObs(e[1], StartYear) /\ HasObs(e[1], EndYear)
  /\ \A i \in DOMAIN xl.City_Growth_Analysis :
       LET e == xl.City_Growth_Analysis[i].ent
       IN HasCityObs(e[1], e[2], StartYear) /\ HasCityObs(e[1], e[2], EndYear)
  /\ \A i \in DOMAIN xl.Top_5_Cities :
       LET e == xl.Top_5_Cities[i].ent
       IN HasCityObs(e[1], e[2], StartYear) /\ HasCityObs(e[1], e[2], EndYear)

\* a finished run and its workbooks: TX has 2000 but not 2025, NY has 2025 but
\* not 2000, the other states have both and are reported, TX and NY are not
C4_Witness ==
  /\ pc = "done"
  /\ xl.made
  /\ HasObs("TX", StartYear) /\ ~HasObs("TX", EndYear)
  /\ ~HasObs("NY", StartYear) /\ HasObs("NY", EndYear)
  /\ Len(df2) = TopN
  /\ Len(xl.Growth_Analysis) = Len(excel_order)
  /\ Len(xl.City_Growth_Analysis) = Len(excel_order)
  /\ \A i \in DOMAIN df2 : df2[i].statename \notin {"TX", "NY"}
  /\ \A i \in DOMAIN xl.Growth_Analysis : xl.Growth_Analysis[i].ent[1] \notin {"TX", "NY"}

\* C5: a state is in the q4 result only with at least 10 valid deltas, and its
\* years_tracked is the number of its valid deltas
C5_TenValidDeltas ==
  \A i \in NumberRows :
    /\ Cardinality(ValidDeltaYears(df4[i].statename)) >= MinDeltas
    /\ df4[i].years_tracked = Cardinality(ValidDeltaYears(df4[i].statename))

\* states whose series has no gap and a zero aggregate followed by a year
ZeroDenominatorStates ==
  {s \in {table[i].statename : i \in DOMAIN table} :
     /\ Cardinality(AdjacentPairs(s)) + 1 = Cardinality(ObsYears(s))
     /\ \E y \in AdjacentPairs(s) : ObsSum(s, y) = 0}

\* C6: a zero denominator drops that one delta only: q4 still runs, and the
\* state is reported from its other deltas when 10 or more of them are left
C6_ZeroDenominatorDropsOneDelta ==
  \A s \in ZeroDenominatorStates :
    /\ pc # "failed_q4"
    /\ (pc \in {"queried", "done"} /\ Cardinality(ValidDeltaYears(s)) >= MinDeltas)
         => \E i \in DOMAIN df4 :
              /\ df4[i].statename = s
              /\ df4[i].years_tracked = Cardinality(ValidDeltaYears(s))
              /\ df4[i].volatility_stddev.k = "fin"
              /\ df4[i].avg_yoy_change_pct.k = "fin"

\* C6 on an installation whose division by zero gives NULL
C6_HoldsWithoutIeeeOps == ~ieee => C6_ZeroDenominatorDropsOneDelta

\* p is the growth in percent, to 2 decimals, between the unrounded means of
\* state s in the years y0 and y1
IsUnroundedPct(p, s, y0, y1) ==
  /\ p.k = "fin"
  /\ IsNearest(p.v, (ObsSum(s, y1) * ObsCount(s, y0) - ObsSum(s, y0) * ObsCount(s, y1)) * 10000,
               ObsSum(s, y0) * ObsCount(s, y1))

\* C7: the growth percentage is the one obtained from the unrounded averages
\* of the start and the end period
C7_GrowthFromUnrounded ==
  \A i \in DOMAIN df2 :
    df2[i].value_2000 # 0
      => IsUnroundedPct(df2[i].pct_growth, df2[i].statename, StartYear, EndYear)

\* the pairs <<y0, y1>> of successive years of state s (no year of s between)
SuccessiveYears(s) ==
  {p \in ObsYears(s) \X ObsYears(s) :
     p[1] < p[2] /\ ~(\E y \in ObsYears(s) : p[1] < y /\ y < p[2])}

\* C7 as amended: growth is computed from the period averages rounded to 2
\* decimals (value_2000 and value_2025 as reported), and only the
\* year-over-year deltas from the unrounded ones: pct_growth is the growth
\* between the two rounded averages, best_year_pct and worst_year_pct are
\* year-over-year changes between unrounded averages
C7_RoundedForGrowthOnly ==
  /\ \A i \in DOMAIN df2 :
       LET r == df2[i]
       IN /\ r.value_2000 = SqlRound(ObsSum(r.statename, StartYear), ObsCount(r.statename, StartYear))
          /\ r.value_2025 = SqlRound(ObsSum(r.statename, EndYear), ObsCount(r.statename, EndYear))
          /\ r.value_2000 # 0 => IsPctGrowth(r.pct_growth, r.value_2000, r.value_2025)
  /\ \A i \in NumberRows :
       LET s == df4[i].statename
       IN /\ \E p \in SuccessiveYears(s) :
               ObsSum(s, p[1]) # 0 /\ IsUnroundedPct(df4[i].best_year_pct, s, p[1], p[2])
          /\ \E p \in SuccessiveYears(s) :
               ObsSum(s, p[1]) # 0 /\ IsUnroundedPct(df4[i].worst_year_pct, s, p[1], p[2])

\* a run on a state whose 2000 average 0.015 is reported as 0.02: its growth
\* to 0.02 in 2025 is 0.00 percent (33.33 from the unrounded average), its best
\* year-over-year change 33.33 percent (0.015 to 0.02)
C7_Witness ==
  /\ pc = "queried"
  /\ ObsSum("TX", StartYear) = 3 /\ ObsCount("TX", StartYear) = 2
  /\ \E i \in DOMAIN df2 :
       /\ df2[i].statename = "TX" /\ df2[i].value_2000 = 2
       /\ df2[i].pct_growth = Fin(0)
       /\ ~IsUnroundedPct(df2[i].pct_growth, "TX", StartYear, EndYear)
  /\ \E i \in NumberRows :
       df4[i].statename = "TX" /\ df4[i].best_year_pct = Fin(3333)

\* the series 100, 110, 105, 120, 90, 95, 130, 140, 135, 150, 160 of C8
C8Table == Backdrop("y2010") \o SeriesRows(Len(SeriesBase), 0, 0)

\* C8: for that series the reported volatility is 15.74, the sample standard
\* deviation (n - 1 = 9) of its ten deltas 10, -4.5454.., 14.2857.., -25,
\* 5.5555.., 36.8421.., 7.6923.., -3.5714.., 11.1111.., 6.6666.. (15.7382..),
\* and not 14.93, their population standard deviation (14.9306..)
C8_SampleStddev ==
  (csv = C8Table /\ pc \in {"queried", "done"})
    => /\ Len(df4) = 1
       /\ df4[1].statename = "TX"
       /\ df4[1].years_tracked = 10
       /\ df4[1].volatility_stddev = Fin(1574)
       /\ df4[1].volatility_stddev # Fin(1493)
       /\ df4[1].avg_yoy_change_pct = Fin(590)

C8_Witness ==
  /\ csv = C8Table
  /\ pc = "queried"
  /\ Len(df4) = 1
  /\ df4[1].volatility_stddev = Fin(1574)

\* C9: the rows of Q3A and of Q3B are growth records of cities of the loaded
\* table
C9_Q3FromLoadedTable ==
  Q2Written
    => /\ \A i \in DOMAIN df3a :
            /\ HasCityObs(df3a[i].city, df3a[i].statename, StartYear)
            /\ HasCityObs(df3a[i].city, df3a[i].statename, EndYear)
       /\ \A i \in DOMAIN df3b :
            /\ HasCityObs(df3b[i].city, df3b[i].statename, StartYear)
            /\ HasCityObs(df3b[i].city, df3b[i].statename, EndYear)

\* C10: the second run on the same file leaves what the first left, rows and
\* row order included (stated for the runs whose growth percentages are all
\* numbers)
C10_SecondRunIdentical ==
  (/\ run = 2 /\ pc \in {"queried", "done"} /\ prev.pc = "done"
   /\ \A i \in DOMAIN prev.df2 : prev.df2[i].pct_growth.k = "fin")
    => /\ df2 = prev.df2
       /\ df3a = prev.df3a
       /\ df3b = prev.df3b
       /\ df4 = prev.df4

\* the observations the workbooks are made from: the rows of the loaded table
\* with a value (load_data)
ObsRows == {i \in DOMAIN table : table[i].yearlyindex.k = "fin"}
ObsStates == {table[i].statename : i \in ObsRows}
CitiesOf(s) == {c \in Range(CityNames) : \E i \in ObsRows : table[i].statename = s /\ table[i].city = c}
CountiesOf(s) ==
  {k \in {"k1", "k2"} : \E i \in ObsRows : table[i].statename = s /\ table[i].countyname = k}

\* C11: the State_Coverage sheet has one row per state with observations,
\* holding the number of distinct cities and the number of distinct counties
\* of the state's observation rows (the rows load_data returns), a repeated
\* identifier counted once: three rows with the cities a, b, a give 2; the
\* rows are in non-increasing order of the city count
C11_CoverageCounts ==
  xl.made =>
    LET cov == xl.State_Coverage
    IN /\ \A s \in ObsStates :
            \E i \in DOMAIN cov :
              /\ cov[i].State = s
              /\ cov[i].Unique_Cities = Cardinality(CitiesOf(s))
              /\ cov[i].Unique_Counties = Cardinality(CountiesOf(s))
       /\ Len(cov) = Cardinality(ObsStates)
       /\ \A i \in DOMAIN cov : \A j \in DOMAIN cov :
            i < j => cov[i].Unique_Cities >= cov[j].Unique_Cities
       /\ \A i \in DOMAIN cov :
            (/\ Cardinality({j \in ObsRows : table[j].statename = cov[i].State}) = 3
             /\ CitiesOf(cov[i].State) = {"a", "b"})
              => cov[i].Unique_Cities = 2

\* workbooks made from a table where TX has the three rows (a, 2000),
\* (b, 2000), (a, 2025) in one county and NY one city in two counties: TX
\* comes first with 2 cities and 1 county, NY has 1 city and 2 counties
C11_Witness ==
  /\ xl.made
  /\ Cardinality({j \in ObsRows : table[j].statename = "TX"}) = 3
  /\ xl.State_Coverage[1] = [State |-> "TX", Unique_Cities |-> 2, Unique_Counties |-> 1]
  /\ \E i \in DOMAIN xl.State_Coverage :
       xl.State_Coverage[i] = [State |-> "NY", Unique_Cities |-> 1, Unique_Counties |-> 2]
  /\ Len(xl.State_Coverage) = 12

\* the states with a growth record: an aggregate in 2000 and in 2025, the one
\* of 2000 not 0
Qualifies(s) == HasObs(s, StartYear) /\ HasObs(s, EndYear) /\ ObsSum(s, StartYear) # 0
QualifyingStates == {s \in Range(StateNames) : Qualifies(s)}

\* the growth in percent of a qualifying state as q2 rounds it, and as the
\* workbook does
SqlPctOf(s) ==
  LET v0 == SqlRound(ObsSum(s, StartYear), ObsCount(s, StartYear))
      v1 == SqlRound(ObsSum(s, EndYear), ObsCount(s, EndYear))
  IN SqlRound((v1 - v0) * 10000, v0)
NpPctOf(s) ==
  LET v0 == NpRound(ObsSum(s, StartYear), ObsCount(s, StartYear))
      v1 == NpRound(ObsSum(s, EndYear), ObsCount(s, EndYear))
  IN NpRound((v1 - v0) * 10000, v0)

\* C12: the q2 result and the Top_5_States sheet are the 5 highest-ranked
\* qualifying states (all of them when fewer than 5 qualify), in
\* non-increasing order of pct_growth; no qualifying state left out has a
\* pct_growth above that of a state kept
C12_TopNExact ==
  /\ Q2Written =>
       /\ Len(df2) = Min2(TopN, Cardinality(QualifyingStates))
       /\ \A i \in DOMAIN df2 :
            /\ df2[i].statename \in QualifyingStates
            /\ df2[i].pct_growth.k = "fin"
            /\ \A j \in DOMAIN df2 : i < j => df2[i].pct_growth.v >= df2[j].pct_growth.v
            /\ \A s \in QualifyingStates \ {df2[k].statename : k \in DOMAIN df2} :
                 SqlPctOf(s) <= df2[i].pct_growth.v
  /\ xl.made =>
       LET top == xl.Top_5_States
       IN /\ Len(top) = Min2(TopN, Cardinality(QualifyingStates))
          /\ \A i \in DOMAIN top :
               /\ top[i].ent[1] \in QualifyingStates
               /\ top[i].Growth_Percentage.k = "fin"
               /\ \A j \in DOMAIN top :
                    i < j => top[i].Growth_Percentage.v >= top[j].Growth_Percentage.v
               /\ \A s \in QualifyingStates \ {top[k].ent[1] : k \in DOMAIN top} :
                    NpPctOf(s) <= top[i].Growth_Percentage.v

\* C12 on the tables where no state has a zero aggregate in 2000
NoZeroStart == \A s \in Range(StateNames) : HasObs(s, StartYear) => ObsSum(s, StartYear) # 0
C12_HoldsWithoutZeroStart == NoZeroStart => C12_TopNExact

\* the valid year-over-year changes of the states of the loaded table, and the
\* states meeting the minimum-delta threshold of q4
TableChanges == StateChanges(StateYearAvg(table), ieee)
ThresholdStatesOf(changes) == {s \in DOMAIN changes : Len(changes[s]) >= MinDeltas}
LeftOut(changes) == ThresholdStatesOf(changes) \ {df4[k].statename : k \in DOMAIN df4}

\* C13: the rows of the q4 result are in non-increasing order of the reported
\* standard deviation, there are min(10, states meeting the threshold) of them,
\* and no state meeting the threshold that is left out has a standard
\* deviation above that of a state kept (rows whose statistics are not
\* numbers are the subject of C6)
C13_SortedByStddev ==
  pc \in {"queried", "done"} =>
    LET changes == TableChanges
    IN /\ Len(df4) <= VolLimit
       /\ Len(df4) = Min2(VolLimit, Cardinality(ThresholdStatesOf(changes)))
       /\ \A i \in NumberRows : \A j \in NumberRows :
            i < j => df4[i].volatility_stddev.v >= df4[j].volatility_stddev.v
       /\ \A s \in LeftOut(changes) :
            LET sd == VolatilityRow(s, changes[s]).volatility_stddev
            IN \A i \in NumberRows : sd.k = "fin" => sd.v <= df4[i].volatility_stddev.v

\* a q4 result of ten rows of different standard deviations, with a state
\* meeting the threshold left out
C13_Witness ==
  /\ pc = "queried"
  /\ Len(df4) = VolLimit
  /\ NumberRows = DOMAIN df4
  /\ df4[1].volatility_stddev.v > df4[VolLimit].volatility_stddev.v
  /\ \E s \in LeftOut(TableChanges) :
       VolatilityRow(s, TableChanges[s]).volatility_stddev.v < df4[VolLimit].volatility_stddev.v

\* C14: rows of equal pct_growth (numbers) are in the order of the source
\* grouping: in the q2 result, in Growth_Analysis and in City_Growth_Analysis
\* the entity that comes first among the groups comes first among the rows
C14_StableTies ==
  /\ \A i \in DOMAIN df2 : \A j \in DOMAIN df2 :
       (i < j /\ df2[i].pct_growth.k = "fin" /\ df2[i].pct_growth = df2[j].pct_growth)
         => StateIdx(df2[i].statename) < StateIdx(df2[j].statename)
  /\ \A i \in DOMAIN xl.Growth_Analysis : \A j \in DOMAIN xl.Growth_Analysis :
       LET a == xl.Growth_Analysis[i]
           b == xl.Growth_Analysis[j]
       IN (i < j /\ a.Growth_Percentage.k = "fin" /\ a.Growth_Percentage = b.Growth_Percentage)
            => EntPos(a) < EntPos(b)
  /\ \A i \in DOMAIN xl.City_Growth_Analysis : \A j \in DOMAIN xl.City_Growth_Analysis :
       LET a == xl.City_Growth_Analysis[i]
           b == xl.City_Growth_Analysis[j]
       IN (i < j /\ a.Growth_Percentage.k = "fin" /\ a.Growth_Percentage = b.Growth_Percentage)
            => EntPos(a) < EntPos(b)

\* C15: when the input file does not exist the run warns, loads the sample
\* and goes through run_queries and write_summary to its end
C15_MissingFileFallsBack ==
  ~exists =>
    /\ pc # "start" => (warned /\ table = sample)
    /\ Ended => pc = "done"

\* the part of C15 about load_into_duckdb alone
C15_FallbackLoadsSample == (~exists /\ pc # "start") => (warned /\ table = sample)

\* n / d * 100 to 2 decimals, in hundredths of a percent (n >= 0, d > 0),
\* by long division
PctByLongDivision(n, d) ==
  LET r0 == n % d
      r1 == (r0 * 100) % d
      r2 == (r1 * 100) % d
  IN (n \div d) * 10000 + ((r0 * 100) \div d) * 100 + (r1 * 100) \div d
       + (IF 2 * r2 >= d THEN 1 ELSE 0)

Q3RowConsistent(r) ==
  /\ r.absolute_growth = r.value_2025 - r.value_2000
  /\ r.pct_growth = PctByLongDivision(r.value_2025 - r.value_2000, r.value_2000)

\* C16: every row of the Q3A and Q3B tables has absolute_growth = value_2025
\* - value_2000 and pct_growth = round((value_2025 - value_2000) / value_2000
\* * 100, 2); Q3A is in descending order of absolute_growth, Q3B of pct_growth
C16_Q3RowsConsistent ==
  Q2Written =>
    /\ Len(df3a) = TopN /\ Len(df3b) = TopN
    /\ \A i \in DOMAIN df3a : Q3RowConsistent(df3a[i])
    /\ \A i \in DOMAIN df3b : Q3RowConsistent(df3b[i])
    /\ \A i \in DOMAIN df3a : \A j \in DOMAIN df3a :
         i < j => df3a[i].absolute_growth > df3a[j].absolute_growth
    /\ \A i \in DOMAIN df3b : \A j \in DOMAIN df3b :
         i < j => df3b[i].pct_growth > df3b[j].pct_growth

\* C16 for all rows but the fifth of Q3A (Los Altos)
C16_AllButLosAltos ==
  Q2Written =>
    /\ \A i \in DOMAIN df3a : i # TopN => Q3RowConsistent(df3a[i])
    /\ \A i \in DOMAIN df3b : Q3RowConsistent(df3b[i])
    /\ df3a[TopN].absolute_growth = df3a[TopN].value_2025 - df3a[TopN].value_2000
    /\ PctByLongDivision(df3a[TopN].absolute_growth, df3a[TopN].value_2000) = 28209
    /\ \A i \in DOMAIN df3a : \A j \in DOMAIN df3a :
         i < j => df3a[i].absolute_growth > df3a[j].absolute_growth
    /\ \A i \in DOMAIN df3b : \A j \in DOMAIN df3b :
         i < j => df3b[i].pct_growth > df3b[j].pct_growth

\* C17: the summary written at the end of a run that started with an empty
\* reports directory names, on its state growth line, the top state of the q2
\* result and its pct_growth whenever that result is not empty, and gives the
\* coverage of the Q1 averages whenever there are any
C17_SummaryFromOutputs ==
  pc = "done" =>
    LET lines == reports["summary.txt"]
    IN /\ df2 # <<>> =>
            /\ ~lines.state_growth.na
            /\ lines.state_growth.statename = df2[1].statename
            /\ lines.state_growth.pct_growth = df2[1].pct_growth
       /\ ObsRows # {} => ~lines.coverage.na

\* what the summary holds after every completed run
C17_SummaryIsAlwaysNA ==
  pc = "done" =>
    /\ reports["summary.txt"].state_growth = NA
    /\ reports["summary.txt"].coverage = NA

\* C18: create_q1_pivot_csv, run after a completed run with Q1 averages,
\* succeeds and writes its pivot; the Q1 file of that run has the columns
\* statename, year, avg_yearly_index
C18_PivotAfterRun ==
  (pc = "done" /\ ObsRows # {} /\ pivot_pc # "none") =>
    /\ pivot_pc = "written"
    /\ IsFile(reports, "Q1_Top10_States_Average_Values_Pivot.csv")
    /\ {"statename", "year", "avg_yearly_index"}
         \subseteq Range(reports["Q1_Top10_States_Average_Values.csv"].columns)

\* what create_q1_pivot_csv does after every completed run with Q1 averages
C18_PivotAlwaysFails == (pc = "done" /\ ObsRows # {} /\ pivot_pc # "none") => pivot_pc = "failed"

\* no observation of the loaded table has 0 as its 2000 aggregate, and no
\* aggregate lies halfway between two hundredths
NoHalfCent ==
  \A s \in Range(StateNames) : \A y \in Years :
    HasObs(s, y) => (2 * ObsSum(s, y)) % (2 * ObsCount(s, y)) # ObsCount(s, y)

\* the growth percentages of the Growth_Analysis sheet are all different
NoTies ==
  \A i \in DOMAIN xl.Growth_Analysis : \A j \in DOMAIN xl.Growth_Analysis :
    i # j => xl.Growth_Analysis[i].Growth_Percentage # xl.Growth_Analysis[j].Growth_Percentage

\* C19: ties aside, the q2 result and the Top_5_States sheet hold the same
\* states with the same value_2000, value_2025 and pct_growth
C19_SqlAndWorkbookAgree ==
  (Q2Written /\ xl.made /\ NoTies) =>
    {<<df2[i].statename, Fin(df2[i].value_2000), Fin(df2[i].value_2025), df2[i].pct_growth>> :
       i \in DOMAIN df2}
      = {<<r.ent[1], Fin(r.Value_2000), r.Value_2025, r.Growth_Percentage>> :
           r \in Range(xl.Top_5_States)}

\* C19 on the tables without a zero 2000 aggregate and without an aggregate
\* halfway between two hundredths
C19_AgreeOnPlainTables == (NoZeroStart /\ NoHalfCent) => C19_SqlAndWorkbookAgree

\* C20: on a table with observations run_queries gets past the Q1 pivot,
\* whichever states and years the table holds, and the growth output is
\* produced
C20_Q1PivotDoesNotFail ==
  (Ended /\ ObsRows # {}) =>
    /\ pc # "failed_q1"
    /\ IsFile(reports, "Q1_Top10_States_Average_Values.csv")
    /\ Q2Written

====
